---- MODULE Spec2Model ----
(***************************************************************************)
(* The raw image exporter of systemd-importd (src/import/export-raw.c):   *)
(* one RawExport engine, the descriptors it reads and writes, the clock   *)
(* its progress rate limiter reads, and the event loop that dispatches    *)
(* raw_export_on_output / raw_export_on_defer; and the pager of the        *)
(* command line tools (src/shared/pager.c): pager_open, pager_close,       *)
(* pager_have and the pager child they fork.                               *)
(***************************************************************************)
EXTENDS Integers, Sequences, FiniteSets, TLC

\* ------------------------------------------------------------------ bounds
\* Largest source file, in bytes.
MaxSize == 3
\* COPY_BUFFER_SIZE is 16*1024 in the source; the model moves at most this
\* many bytes per sendfile()/read() so that a file needs several steps.
COPY_BUFFER_SIZE == 2
\* The monotonic clock runs from 1 to MaxTime (one unit = 100 ms).
MaxTime == 3
\* The completion handler's invocations are recorded up to this many.
MaxFinished == 2
\* fork() hands out process ids 1..MaxPid.
MaxPid == 2

\* --------------------------------------------------------- program constants
EIO == 5
EBADF == 9
EAGAIN == 11
ENOMEM == 12
EBUSY == 16
EMFILE == 24
ENOTTY == 25
ENOSPC == 28
\* RATELIMIT_INIT(e->progress_rate_limit, 100 * USEC_PER_MSEC, 1), in clock units
RATELIMIT_INTERVAL == 1
RATELIMIT_BURST == 1
\* e->last_percent = (unsigned) -1: the "nothing reported yet" sentinel
LAST_PERCENT_NONE == -1

VARIABLES
    e,          \* the RawExport structure
    in_pos,     \* file offset of the open file description behind e.input_fd
    output,     \* bytes of the file (or stream) behind the caller's output fd
    out_pos,    \* file offset of the output descriptor
    now,        \* CLOCK_MONOTONIC
    destroyed,  \* raw_export_unref() has freed the engine
    ret,        \* what the latest raw_export_start() returned
    finished,   \* invocations of the completion handler, in order
    emitted,    \* sd_notifyf()/log_info() progress emissions, in order
    calls,      \* system and compressor calls of the latest transfer step
    produced,   \* bytes the compressor appended to e.buffer, and bytes sendfile() moved
    pager_pid,  \* static pid_t pager_pid of pager.c
    stdout_fd,  \* what the process's STDOUT_FILENO refers to
    cached_on_tty, \* the answer on_tty() caches: -1 while not asked
    children,   \* the pager children forked and not yet waited for
    pager_env,  \* $SYSTEMD_PAGER, or else $PAGER
    pager_op    \* the latest pager_open()/pager_close() call and what it returned

\* The exporter's variables, and the pager's.
export_vars == <<e, in_pos, output, out_pos, now, destroyed, ret, finished, emitted,
                 calls, produced>>
pager_vars == <<pager_pid, stdout_fd, cached_on_tty, children, pager_env, pager_op>>

vars == <<e, in_pos, output, out_pos, now, destroyed, ret, finished, emitted, calls,
          produced, pager_pid, stdout_fd, cached_on_tty, children, pager_env, pager_op>>

Min(a, b) == IF a < b THEN a ELSE b
Max(a, b) == IF a > b THEN a ELSE b

\* ------------------------------------------------------------- environment
\* ImportCompressType values raw_export_start() accepts.
CompressTypes == {"uncompressed", "xz"}

\* What a path names: a directory, or a regular file of some size.
Paths == {[st_mode |-> "S_IFDIR", st_size |-> 0]}
            \cup {[st_mode |-> "S_IFREG", st_size |-> n] : n \in 0..MaxSize}
NoPath == [st_mode |-> "none", st_size |-> 0]

\* The bytes of a regular file of n bytes: all different, so that a
\* duplicated, dropped or reordered byte shows.
Source(n) == [i \in 1..n |-> i]

\* pwrite-like effect of writing data at offset pos of content.
WriteAt(content, pos, data) ==
    [i \in 1..Max(Len(content), pos + Len(data)) |->
        IF i > pos /\ i <= pos + Len(data) THEN data[i - pos] ELSE content[i]]

Drop(s, n) == SubSeq(s, n + 1, Len(s))

\* ------------------------------------------------------ compressor adapter
\* The encoded form of input bytes, and the trailer import_compress_finish()
\* appends for a compressing type.
Encode(data) == [i \in 1..Len(data) |-> data[i] + 100]
Trailer == <<0>>

\* import_compress(): the possible (return value, compressor, appended bytes).
\* "uncompressed" appends the input itself; a compressing type either holds
\* the encoded bytes back or releases all it holds.
import_compress(c, data) ==
    {[r |-> -ENOMEM, c |-> c, out |-> <<>>]} \cup
    IF c.type = "uncompressed"
    THEN {[r |-> 0, c |-> c, out |-> data]}
    ELSE LET all == c.held \o Encode(data)
         IN {[r |-> 0, c |-> [c EXCEPT !.held = Drop(all, k)], out |-> SubSeq(all, 1, k)]
                : k \in {0, Len(all)}}

\* import_compress_finish(): flushes what is held, then the trailer.
import_compress_finish(c) ==
    IF c.type = "uncompressed"
    THEN {[r |-> 0, c |-> c, out |-> <<>>]}
    ELSE {[r |-> -ENOMEM, c |-> c, out |-> <<>>],
          [r |-> 0, c |-> [c EXCEPT !.held = <<>>], out |-> c.held \o Trailer]}

\* ------------------------------------------------------------ rate limiter
\* ratelimit_test(): whether a token is granted at time ts, and the limiter after.
ratelimit_test(r, ts) ==
    IF r.begin <= 0 \/ r.begin + r.interval < ts
    THEN [granted |-> TRUE, r |-> [r EXCEPT !.begin = ts, !.num = 1]]
    ELSE IF r.num < r.burst
         THEN [granted |-> TRUE, r |-> [r EXCEPT !.num = @ + 1]]
         ELSE [granted |-> FALSE, r |-> r]

\* --------------------------------------------------------------- the engine
\* The state a transfer step reads and writes, as one value.
World == [e |-> e, in_pos |-> in_pos, output |-> output, out_pos |-> out_pos,
          finished |-> finished, emitted |-> emitted, calls |-> {},
          produced |-> produced]

Call(w, c) == [w EXCEPT !.calls = @ \cup {c}]

\* raw_export_new()
raw_export_new(on_finished) ==
    [on_finished |-> on_finished,
     path |-> NoPath,
     input_fd |-> "closed",
     output_fd |-> -1,
     compress |-> [type |-> "unknown", held |-> <<>>],
     output_event_source |-> "NULL",
     buffer |-> <<>>,
     written_compressed |-> 0,
     written_uncompressed |-> 0,
     last_percent |-> LAST_PERCENT_NONE,
     progress_rate_limit |-> [interval |-> RATELIMIT_INTERVAL, burst |-> RATELIMIT_BURST,
                              begin |-> 0, num |-> 0],
     st |-> [st_mode |-> "none", st_size |-> 0],
     eof |-> FALSE,
     tried_reflink |-> FALSE,
     tried_sendfile |-> FALSE]

\* Percent() reporting the share still to be written instead of the share written.
Percent_Remaining(x) ==
    IF x.written_uncompressed >= x.st.st_size
    THEN 100
    ELSE ((x.st.st_size - x.written_uncompressed) * 100) \div x.st.st_size

\* The percent raw_export_report_progress() computes.
Percent(x) ==
    IF x.written_uncompressed >= x.st.st_size
    THEN 100
    ELSE (x.written_uncompressed * 100) \div x.st.st_size

\* raw_export_report_progress() without the ratelimit_test() call.
raw_export_report_progress_Unlimited(w) ==
    LET percent == Percent(w.e)
    IN IF percent = w.e.last_percent
       THEN w
       ELSE [w EXCEPT !.e.last_percent = percent,
                      !.emitted = Append(@, [percent |-> percent, at |-> now])]

\* raw_export_report_progress()
raw_export_report_progress(w) ==
    LET percent == Percent(w.e)
        t == ratelimit_test(w.e.progress_rate_limit, now)
    IN IF percent = w.e.last_percent
       THEN w
       ELSE IF ~t.granted
            THEN [w EXCEPT !.e.progress_rate_limit = t.r]
            ELSE [w EXCEPT !.e.progress_rate_limit = t.r,
                           !.e.last_percent = percent,
                           !.emitted = Append(@, [percent |-> percent, at |-> now])]

\* finish: with a last raw_export_report_progress() before the handler runs.
Finish_Reporting(w, via, r) ==
    LET w1 == raw_export_report_progress(w)
    IN [w1 EXCEPT !.finished = Append(@, [r |-> r,
                                          handler |-> IF w.e.on_finished THEN "on_finished"
                                                      ELSE "sd_event_exit",
                                          via |-> via])]

\* finish: without the call of the completion handler.
Finish_Silent(w, via, r) == w

\* The finish: label of raw_export_process(): the completion handler runs.
\* via is the place the step jumped from.
Finish(w, via, r) ==
    [w EXCEPT !.finished = Append(@, [r |-> r,
                                      handler |-> IF w.e.on_finished THEN "on_finished"
                                                  ELSE "sd_event_exit",
                                      via |-> via])]

\* The while (e->buffer_size <= 0) loop: the worlds it can end in, each with
\* whether the step goes on to write() or, from where, to finish: with r.
RECURSIVE ReadLoop(_)
ReadLoop(w) ==
    IF Len(w.e.buffer) > 0
    THEN {[go |-> "write", r |-> 0, w |-> w]}
    ELSE IF w.e.eof
    THEN {[go |-> "eof", r |-> 0, w |-> w]}
    ELSE
      LET remaining == w.e.st.st_size - w.in_pos
          failed == {[go |-> "read:error", r |-> -EIO, w |-> Call(w, "read:error")]}
          after(w1, c) ==
              IF c.r < 0
              THEN {[go |-> "compress:error", r |-> c.r, w |-> Call(w1, "compress:error")]}
              ELSE ReadLoop([w1 EXCEPT !.e.compress = c.c,
                                       !.e.buffer = @ \o c.out,
                                       !.produced = @ + Len(c.out)])
      IN failed \cup
         IF remaining = 0
         THEN LET w1 == [Call(w, "read:0") EXCEPT !.e.eof = TRUE]
              IN UNION {after(w1, c) : c \in import_compress_finish(w1.e.compress)}
         ELSE UNION {
                LET input == SubSeq(Source(w.e.st.st_size), w.in_pos + 1, w.in_pos + l)
                    w1 == [Call(w, "read:data") EXCEPT
                              !.in_pos = @ + l,
                              !.e.written_uncompressed = @ + l]
                IN UNION {after(w1, c) : c \in import_compress(w1.e.compress, input)}
                : l \in 1..Min(COPY_BUFFER_SIZE, remaining)}

\* WriteBuffer() without the memmove() and the buffer_size -= l.
WriteBuffer_NoCompact(w) ==
    {Call(w, "write:EAGAIN")}
    \cup {Finish(Call(w, "write:error"), "write:error", -ENOSPC)}
    \cup {raw_export_report_progress(
            [Call(w, "write:data") EXCEPT
                !.output = WriteAt(@, w.out_pos, SubSeq(w.e.buffer, 1, l)),
                !.out_pos = @ + l,
                !.e.written_compressed = @ + l])
          : l \in 0..Len(w.e.buffer)}

\* WriteBuffer() treating EAGAIN like any other write() error.
WriteBuffer_EagainFatal(w) ==
    {Finish(Call(w, "write:EAGAIN"), "write:error", -EAGAIN)}
    \cup {Finish(Call(w, "write:error"), "write:error", -ENOSPC)}
    \cup {raw_export_report_progress(
            [Call(w, "write:data") EXCEPT
                !.output = WriteAt(@, w.out_pos, SubSeq(w.e.buffer, 1, l)),
                !.out_pos = @ + l,
                !.e.buffer = Drop(@, l),
                !.e.written_compressed = @ + l])
          : l \in 0..Len(w.e.buffer)}

\* write(e->output_fd, e->buffer, e->buffer_size) and what follows it.
WriteBuffer(w) ==
    {Call(w, "write:EAGAIN")}
    \cup {Finish(Call(w, "write:error"), "write:error", -ENOSPC)}
    \cup {raw_export_report_progress(
            [Call(w, "write:data") EXCEPT
                !.output = WriteAt(@, w.out_pos, SubSeq(w.e.buffer, 1, l)),
                !.out_pos = @ + l,
                !.e.buffer = Drop(@, l),
                !.e.written_compressed = @ + l])
          : l \in 0..Len(w.e.buffer)}

\* The generic buffered path: lines 192-235.
GenericPath(w) ==
    UNION {IF x.go = "write" THEN WriteBuffer(x.w) ELSE {Finish(x.w, x.go, x.r)}
           : x \in ReadLoop(w)}

\* SendfilePath() without the !e->tried_sendfile test.
SendfilePath_IgnoreLatch(w, sf) ==
    IF w.e.compress.type = "uncompressed"
    THEN LET remaining == w.e.st.st_size - w.in_pos
         IN (IF "EAGAIN" \in sf THEN {Call(w, "sendfile:EAGAIN")} ELSE {})
            \cup
            (IF "error" \in sf
             THEN GenericPath([Call(w, "sendfile:error") EXCEPT !.e.tried_sendfile = TRUE])
             ELSE {})
            \cup
            (IF "data" \notin sf THEN {}
             ELSE IF remaining = 0
             THEN {Finish(Call(w, "sendfile:0"), "sendfile:0", 0)}
             ELSE {raw_export_report_progress(
                     [Call(w, "sendfile:data") EXCEPT
                         !.output = WriteAt(@, w.out_pos,
                                            SubSeq(Source(w.e.st.st_size), w.in_pos + 1, w.in_pos + l)),
                         !.out_pos = @ + l,
                         !.in_pos = @ + l,
                         !.e.written_uncompressed = @ + l,
                         !.e.written_compressed = @ + l,
                         !.produced = @ + l])
                   : l \in 1..Min(COPY_BUFFER_SIZE, remaining)})
    ELSE GenericPath(w)

\* SendfilePath() treating EAGAIN like any other sendfile() error.
SendfilePath_LatchOnEagain(w, sf) ==
    IF ~w.e.tried_sendfile /\ w.e.compress.type = "uncompressed"
    THEN IF "EAGAIN" \in sf
         THEN GenericPath([Call(w, "sendfile:EAGAIN") EXCEPT !.e.tried_sendfile = TRUE])
         ELSE {}
    ELSE GenericPath(w)

\* The sendfile() fast path: lines 171-190. sf is the set of results the
\* kernel may give: "EAGAIN", "error", "data" (bytes moved, or 0 at end of file).
SendfilePath(w, sf) ==
    IF ~w.e.tried_sendfile /\ w.e.compress.type = "uncompressed"
    THEN LET remaining == w.e.st.st_size - w.in_pos
         IN (IF "EAGAIN" \in sf THEN {Call(w, "sendfile:EAGAIN")} ELSE {})
            \cup
            (IF "error" \in sf
             THEN GenericPath([Call(w, "sendfile:error") EXCEPT !.e.tried_sendfile = TRUE])
             ELSE {})
            \cup
            (IF "data" \notin sf THEN {}
             ELSE IF remaining = 0
             THEN {Finish(Call(w, "sendfile:0"), "sendfile:0", 0)}
             ELSE {raw_export_report_progress(
                     [Call(w, "sendfile:data") EXCEPT
                         !.output = WriteAt(@, w.out_pos,
                                            SubSeq(Source(w.e.st.st_size), w.in_pos + 1, w.in_pos + l)),
                         !.out_pos = @ + l,
                         !.in_pos = @ + l,
                         !.e.written_uncompressed = @ + l,
                         !.e.written_compressed = @ + l,
                         !.produced = @ + l])
                   : l \in 1..Min(COPY_BUFFER_SIZE, remaining)})
    ELSE GenericPath(w)

\* raw_export_process() trying btrfs_reflink() whatever the compression type.
raw_export_process_AnyType(w, sf) ==
    IF ~w.e.tried_reflink
    THEN {Finish([Call(w, "reflink:ok") EXCEPT
                     !.output = WriteAt(@, 0, Source(w.e.st.st_size))], "reflink:ok", 0)}
         \cup SendfilePath([Call(w, "reflink:error") EXCEPT !.e.tried_reflink = TRUE], sf)
    ELSE SendfilePath(w, sf)

\* raw_export_process(): the worlds one transfer step can end in.
raw_export_process(w, sf) ==
    IF ~w.e.tried_reflink /\ w.e.compress.type = "uncompressed"
    THEN \* btrfs_reflink() clones the whole source into the output, or fails
         {Finish([Call(w, "reflink:ok") EXCEPT
                     !.output = WriteAt(@, 0, Source(w.e.st.st_size))], "reflink:ok", 0)}
         \cup SendfilePath([Call(w, "reflink:error") EXCEPT !.e.tried_reflink = TRUE], sf)
    ELSE SendfilePath(w, sf)

\* sd_event_exit() was called: the loop dispatches no further source.
LoopExited == \E i \in DOMAIN finished : finished[i].handler = "sd_event_exit"

\* The event loop dispatches the engine's source of kind src.
Dispatch(src, sf) ==
    /\ ~destroyed
    /\ e.output_event_source = src
    /\ e.output_fd >= 0
    /\ ~LoopExited
    /\ Len(finished) < MaxFinished
    /\ \E w \in raw_export_process(World, sf) :
          /\ e' = w.e
          /\ in_pos' = w.in_pos
          /\ output' = w.output
          /\ out_pos' = w.out_pos
          /\ finished' = w.finished
          /\ emitted' = w.emitted
          /\ calls' = w.calls
          /\ produced' = w.produced
    /\ UNCHANGED <<now, destroyed, ret>>
    /\ UNCHANGED pager_vars

SendfileResults == {"EAGAIN", "error", "data"}

\* raw_export_on_output()
raw_export_on_output == Dispatch("io", SendfileResults)

\* raw_export_on_defer()
raw_export_on_defer == Dispatch("defer", SendfileResults)

\* raw_export_start() without the e->output_fd >= 0 test of line 304.
raw_export_start_NoBusyCheck(path, fd, compress, fail, eperm) ==
    LET e1 == [e EXCEPT !.path = path]
        e2 == [e1 EXCEPT !.st = path]
        e3 == [e2 EXCEPT !.input_fd = "open"]
        e4 == [e3 EXCEPT !.compress = [type |-> compress, held |-> <<>>]]
        e5 == [e4 EXCEPT !.output_event_source = IF eperm THEN "defer" ELSE "io"]
        e6 == [e5 EXCEPT !.output_fd = fd]
    IN IF fail = "fd_nonblock" THEN [r |-> -EBADF, e |-> e, opened |-> FALSE]
       ELSE IF fail = "free_and_strdup" THEN [r |-> -ENOMEM, e |-> e, opened |-> FALSE]
       ELSE IF fail = "open" THEN [r |-> -EIO, e |-> e1, opened |-> FALSE]
       ELSE IF fail = "fstat" THEN [r |-> -EIO, e |-> e1, opened |-> FALSE]
       ELSE IF path.st_mode # "S_IFREG" THEN [r |-> -ENOTTY, e |-> e2, opened |-> FALSE]
       ELSE IF fail = "import_compress_init" THEN [r |-> -ENOMEM, e |-> e3, opened |-> TRUE]
       ELSE IF fail = "sd_event_add_io" THEN [r |-> -ENOMEM, e |-> e4, opened |-> TRUE]
       ELSE IF eperm /\ fail = "sd_event_add_defer"
            THEN [r |-> -ENOMEM, e |-> e4, opened |-> TRUE]
       ELSE IF eperm /\ fail = "sd_event_source_set_enabled"
            THEN [r |-> -ENOMEM, e |-> e5, opened |-> TRUE]
       ELSE [r |-> 0, e |-> e6, opened |-> TRUE]

\* raw_export_start() with the S_ISREG() test after the input_fd assignment.
raw_export_start_LateTypeCheck(path, fd, compress, fail, eperm) ==
    LET e1 == [e EXCEPT !.path = path]
        e2 == [e1 EXCEPT !.st = path]
        e3 == [e2 EXCEPT !.input_fd = "open"]
        e4 == [e3 EXCEPT !.compress = [type |-> compress, held |-> <<>>]]
        e5 == [e4 EXCEPT !.output_event_source = IF eperm THEN "defer" ELSE "io"]
        e6 == [e5 EXCEPT !.output_fd = fd]
    IN IF e.output_fd >= 0 THEN [r |-> -EBUSY, e |-> e, opened |-> FALSE]
       ELSE IF fail = "fd_nonblock" THEN [r |-> -EBADF, e |-> e, opened |-> FALSE]
       ELSE IF fail = "free_and_strdup" THEN [r |-> -ENOMEM, e |-> e, opened |-> FALSE]
       ELSE IF fail = "open" THEN [r |-> -EIO, e |-> e1, opened |-> FALSE]
       ELSE IF fail = "fstat" THEN [r |-> -EIO, e |-> e1, opened |-> FALSE]
       ELSE IF path.st_mode # "S_IFREG" THEN [r |-> -ENOTTY, e |-> e3, opened |-> TRUE]
       ELSE IF fail = "import_compress_init" THEN [r |-> -ENOMEM, e |-> e3, opened |-> TRUE]
       ELSE IF fail = "sd_event_add_io" THEN [r |-> -ENOMEM, e |-> e4, opened |-> TRUE]
       ELSE IF eperm /\ fail = "sd_event_add_defer"
            THEN [r |-> -ENOMEM, e |-> e4, opened |-> TRUE]
       ELSE IF eperm /\ fail = "sd_event_source_set_enabled"
            THEN [r |-> -ENOMEM, e |-> e5, opened |-> TRUE]
       ELSE [r |-> 0, e |-> e6, opened |-> TRUE]

\* raw_export_start(e, path, fd, compress). fail names the call that fails, if
\* any; eperm is whether sd_event_add_io() answers -EPERM.
StartFailures == {"none", "fd_nonblock", "free_and_strdup", "open", "fstat",
                  "import_compress_init", "sd_event_add_io", "sd_event_add_defer",
                  "sd_event_source_set_enabled"}

raw_export_start(path, fd, compress, fail, eperm) ==
    LET e1 == [e EXCEPT !.path = path]
        e2 == [e1 EXCEPT !.st = path]
        \* tfd or sfd: either way an open descriptor on the same bytes
        e3 == [e2 EXCEPT !.input_fd = "open"]
        e4 == [e3 EXCEPT !.compress = [type |-> compress, held |-> <<>>]]
        e5 == [e4 EXCEPT !.output_event_source = IF eperm THEN "defer" ELSE "io"]
        e6 == [e5 EXCEPT !.output_fd = fd]
    IN IF e.output_fd >= 0 THEN [r |-> -EBUSY, e |-> e, opened |-> FALSE]
       ELSE IF fail = "fd_nonblock" THEN [r |-> -EBADF, e |-> e, opened |-> FALSE]
       ELSE IF fail = "free_and_strdup" THEN [r |-> -ENOMEM, e |-> e, opened |-> FALSE]
       ELSE IF fail = "open" THEN [r |-> -EIO, e |-> e1, opened |-> FALSE]
       ELSE IF fail = "fstat" THEN [r |-> -EIO, e |-> e1, opened |-> FALSE]
       ELSE IF path.st_mode # "S_IFREG" THEN [r |-> -ENOTTY, e |-> e2, opened |-> FALSE]
       ELSE IF fail = "import_compress_init" THEN [r |-> -ENOMEM, e |-> e3, opened |-> TRUE]
       ELSE IF fail = "sd_event_add_io" THEN [r |-> -ENOMEM, e |-> e4, opened |-> TRUE]
       ELSE IF eperm /\ fail = "sd_event_add_defer"
            THEN [r |-> -ENOMEM, e |-> e4, opened |-> TRUE]
       ELSE IF eperm /\ fail = "sd_event_source_set_enabled"
            THEN [r |-> -ENOMEM, e |-> e5, opened |-> TRUE]
       ELSE [r |-> 0, e |-> e6, opened |-> TRUE]

\* The caller calls raw_export_start(). On an engine that is already active
\* the arguments and the environment play no part in the result.
Start ==
    /\ ~destroyed
    /\ \E path \in IF e.output_fd >= 0 THEN {e.path} ELSE Paths,
          compress \in IF e.output_fd >= 0 THEN {e.compress.type} ELSE CompressTypes,
          fail \in IF e.output_fd >= 0 THEN {"none"} ELSE StartFailures,
          eperm \in IF e.output_fd >= 0 THEN {FALSE} ELSE BOOLEAN :
          LET out == raw_export_start(path, 1, compress, fail, eperm)
          IN /\ e' = out.e
             /\ ret' = out.r
             \* the descriptor put into input_fd is freshly opened: its offset is 0
             /\ in_pos' = IF out.opened THEN 0 ELSE in_pos
    /\ UNCHANGED <<output, out_pos, now, destroyed, finished, emitted, calls, produced>>
    /\ UNCHANGED pager_vars

\* raw_export_unref(): the source is unregistered, input_fd closed, the
\* buffer, the path and the engine freed. Nothing of the engine is left to
\* observe, and what was recorded about it is dropped with it.
raw_export_unref ==
    /\ ~destroyed
    /\ destroyed' = TRUE
    /\ e' = raw_export_new(FALSE)
    /\ in_pos' = 0
    /\ output' = <<>>
    /\ out_pos' = 0
    /\ ret' = 0
    /\ finished' = <<>>
    /\ emitted' = <<>>
    /\ calls' = {}
    /\ produced' = 0
    /\ UNCHANGED now
    /\ UNCHANGED pager_vars

\* Time passes.
Tick ==
    /\ ~destroyed
    /\ now < MaxTime
    /\ now' = now + 1
    /\ UNCHANGED <<e, in_pos, output, out_pos, destroyed, ret, finished, emitted, calls,
                   produced>>
    /\ UNCHANGED pager_vars

\* pager.c before its first call, in a process started on a terminal with
\* neither $SYSTEMD_PAGER nor $PAGER set.
PagerUnused ==
    /\ pager_pid = 0
    /\ stdout_fd = "tty"
    /\ cached_on_tty = -1
    /\ children = {}
    /\ pager_env = "unset"
    /\ pager_op = [op |-> "none", r |-> 0]

Init ==
    /\ e \in {raw_export_new(cb) : cb \in BOOLEAN}
    /\ in_pos = 0
    /\ output = <<>>
    /\ out_pos = 0
    /\ now = 1
    /\ destroyed = FALSE
    /\ ret = 0
    /\ finished = <<>>
    /\ emitted = <<>>
    /\ calls = {}
    /\ produced = 0
    /\ PagerUnused

Next ==
    \/ Start
    \/ raw_export_on_output
    \/ raw_export_on_defer
    \/ raw_export_unref
    \/ Tick

Spec == Init /\ [][Next]_vars

\* The same program with an output descriptor on which every sendfile()
\* answers EAGAIN. The event loop keeps dispatching an enabled source.
raw_export_on_output_blocked == Dispatch("io", {"EAGAIN"})
raw_export_on_defer_blocked == Dispatch("defer", {"EAGAIN"})

NextWouldBlock ==
    \/ Start
    \/ raw_export_on_output_blocked
    \/ raw_export_on_defer_blocked
    \/ raw_export_unref
    \/ Tick

SpecWouldBlock ==
    /\ Init
    /\ [][NextWouldBlock]_vars
    /\ WF_vars(raw_export_on_output_blocked)
    /\ WF_vars(raw_export_on_defer_blocked)

\* The export up to its terminal outcome: notifications of an engine whose
\* completion handler has not run yet.
raw_export_on_output_pending == finished = <<>> /\ raw_export_on_output
raw_export_on_defer_pending == finished = <<>> /\ raw_export_on_defer

\* Such a step in which no call answered EAGAIN and the write() that was
\* accepted, if any, took at least one byte.
raw_export_process_progress ==
    /\ raw_export_on_output_pending \/ raw_export_on_defer_pending
    /\ calls' \cap {"sendfile:EAGAIN", "write:EAGAIN"} = {}
    /\ "write:data" \in calls' => e'.written_compressed > e.written_compressed

\* The clock stands still here: it feeds the rate limiter of the progress
\* reports only, and no branch of raw_export_process() reads what
\* raw_export_report_progress() leaves.
NextLive ==
    \/ Start
    \/ raw_export_on_output_pending
    \/ raw_export_on_defer_pending
    \/ raw_export_unref

\* The program with notifications that keep being delivered, on descriptors
\* that do not answer EAGAIN for ever and do not accept empty writes for ever.
SpecLive == Init /\ [][NextLive]_vars /\ WF_vars(raw_export_process_progress)

\* ----------------------------------------------------------------- the pager
\* on_tty(): isatty(STDOUT_FILENO), asked once and cached.
on_tty == IF cached_on_tty >= 0 THEN cached_on_tty
          ELSE IF stdout_fd = "tty" THEN 1 ELSE 0

\* The calls of pager_open() that can fail.
PagerFailures == {"none", "pipe", "fork", "dup2"}

\* Process ids fork() can return: those of no child that is still to be waited for.
FreePids == (1..MaxPid) \ {c.pid : c \in children}

\* pager_have()
pager_have == pager_pid > 0

\* pager_open(jump_to_end). fail names the call that fails, if any; pid is the
\* process id fork() returns.
pager_open ==
    \E jump_to_end \in BOOLEAN, fail \in PagerFailures, pid \in FreePids :
        /\ IF pager_pid > 0
           THEN /\ pager_op' = [op |-> "pager_open", r |-> 1]
                /\ UNCHANGED <<pager_pid, stdout_fd, cached_on_tty, children>>
           ELSE IF pager_env \in {"", "cat"}
           THEN /\ pager_op' = [op |-> "pager_open", r |-> 0]
                /\ UNCHANGED <<pager_pid, stdout_fd, cached_on_tty, children>>
           ELSE IF on_tty = 0
           THEN /\ pager_op' = [op |-> "pager_open", r |-> 0]
                /\ cached_on_tty' = on_tty
                /\ UNCHANGED <<pager_pid, stdout_fd, children>>
           ELSE IF fail = "pipe"
           THEN /\ pager_op' = [op |-> "pager_open", r |-> -EMFILE]
                /\ cached_on_tty' = on_tty
                /\ UNCHANGED <<pager_pid, stdout_fd, children>>
           ELSE IF fail = "fork"
           THEN \* pager_pid = fork() stores the -1
                /\ pager_pid' = -1
                /\ pager_op' = [op |-> "pager_open", r |-> -ENOMEM]
                /\ cached_on_tty' = on_tty
                /\ UNCHANGED <<stdout_fd, children>>
           ELSE /\ pager_pid' = pid
                /\ children' = children \cup
                        {[pid |-> pid, jump_to_end |-> jump_to_end, state |-> "running"]}
                /\ cached_on_tty' = on_tty
                /\ IF fail = "dup2"
                   THEN /\ pager_op' = [op |-> "pager_open", r |-> -EBUSY]
                        /\ UNCHANGED stdout_fd
                   ELSE /\ pager_op' = [op |-> "pager_open", r |-> 1]
                        /\ stdout_fd' = "pipe"
        /\ UNCHANGED pager_env
        /\ UNCHANGED export_vars

\* pager_close(): stdout is closed, and the call returns when the child
\* recorded in pager_pid has terminated and has been waited for.
pager_close ==
    /\ IF pager_pid <= 0
       THEN UNCHANGED <<pager_pid, stdout_fd, children>>
       ELSE /\ stdout_fd' = "closed"
            /\ children' = {c \in children : c.pid # pager_pid}
            /\ pager_pid' = 0
    /\ pager_op' = [op |-> "pager_close", r |-> 0]
    /\ UNCHANGED <<cached_on_tty, pager_env>>
    /\ UNCHANGED export_vars

\* The pager child exits on its own: the user quit the pager, or it could not
\* be executed and pager_fallback() reached the end of its input.
pager_child_exit ==
    /\ \E c \in children :
        /\ c.state = "running"
        /\ children' = (children \ {c}) \cup {[c EXCEPT !.state = "exited"]}
    /\ UNCHANGED <<pager_pid, stdout_fd, cached_on_tty, pager_env, pager_op>>
    /\ UNCHANGED export_vars

\* A process that has not called pager.c yet: on a terminal or not, with
\* $SYSTEMD_PAGER / $PAGER unset, empty, "cat" or naming a pager.
PagerInit ==
    /\ e = raw_export_new(FALSE)
    /\ in_pos = 0
    /\ output = <<>>
    /\ out_pos = 0
    /\ now = 1
    /\ destroyed = FALSE
    /\ ret = 0
    /\ finished = <<>>
    /\ emitted = <<>>
    /\ calls = {}
    /\ produced = 0
    /\ pager_pid = 0
    /\ stdout_fd \in {"tty", "file"}
    /\ cached_on_tty = -1
    /\ children = {}
    /\ pager_env \in {"unset", "", "cat", "less"}
    /\ pager_op = [op |-> "none", r |-> 0]

PagerNext ==
    \/ pager_open
    \/ pager_close
    \/ pager_child_exit

PagerSpec == PagerInit /\ [][PagerNext]_vars

\* ------------------------------------------------------------------ claims
\* An export is outstanding on a live engine.
Active == ~destroyed /\ e.output_fd >= 0

\* A step of the event loop into raw_export_process().
TransferStep == raw_export_on_output \/ raw_export_on_defer

ReadCalls == {"read:data", "read:0", "read:error"}
SendfileCalls == {"sendfile:data", "sendfile:0", "sendfile:error", "sendfile:EAGAIN"}
FatalVias == {"read:error", "compress:error", "write:error"}

IsPrefix(s, t) == Len(s) <= Len(t) /\ s = SubSeq(t, 1, Len(s))
Last(s) == s[Len(s)]

\* C1: the completion handler (on_finished, or sd_event_exit) is invoked
\* exactly once per export, also when notifications keep arriving after the
\* terminal outcome: it is never invoked a second time.
C1_CompletionInvokedOnce == Len(finished) <= 1

\* C2: whenever completion is signalled with result 0, written_uncompressed
\* equals the source file's size, whatever the fast paths did.
C2_SuccessCountsWholeSource ==
    [][(TransferStep /\ finished' # finished /\ Last(finished').r = 0)
            => e'.written_uncompressed = e'.st.st_size]_vars

\* C3: with compression "uncompressed", and no fatal error, under any
\* interleaving of would-block results, partial writes and a switch from
\* sendfile() to read()/write() in mid-transfer, the bytes behind the output
\* descriptor are at every moment a prefix of the source's bytes, in order,
\* and are the whole source once completion is signalled with result 0.
C3_OutputIsOrderedPrefix ==
    (Active /\ e.compress.type = "uncompressed"
        /\ \A i \in DOMAIN finished : finished[i].r = 0)
    => /\ IsPrefix(output, Source(e.st.st_size))
       /\ finished # <<>> => output = Source(e.st.st_size)

\* C3's case: sendfile() moved bytes, then failed, and the same step's
\* read()/write() carried on from where it stopped.
C3_Witness ==
    /\ Active /\ e.compress.type = "uncompressed"
    /\ finished = <<>>
    /\ {"sendfile:error", "read:data", "write:data"} \subseteq calls
    /\ e.written_uncompressed > COPY_BUFFER_SIZE
    /\ e.written_compressed > COPY_BUFFER_SIZE

\* C4 as claimed: when every sendfile() answers EAGAIN, repeated notifications
\* make the engine fall back to the generic path and bring
\* written_uncompressed to the source's size.
C4_FallsBackAndFinishes ==
    (Active /\ e.st.st_size > 0 /\ "sendfile:EAGAIN" \in calls)
        ~> (destroyed \/ (e.tried_sendfile /\ e.written_uncompressed = e.st.st_size))

\* C4 as the code has it: when every sendfile() answers EAGAIN the engine
\* never falls back. tried_sendfile stays false, nothing is read through the
\* generic path, nothing is buffered, written_uncompressed stays 0, and the
\* only completion there can be is the one of a successful reflink.
C4_WouldBlockNeverFallsBack ==
    (Active /\ e.compress.type = "uncompressed")
    => /\ ~e.tried_sendfile
       /\ e.written_uncompressed = 0
       /\ e.written_compressed = 0
       /\ e.buffer = <<>>
       /\ calls \cap ReadCalls = {}
       /\ \A i \in DOMAIN finished : finished[i].via = "reflink:ok"

\* C4's case: a notification that found the reflink latch set and got EAGAIN
\* from sendfile() on a file that has bytes to move.
C4_Witness ==
    /\ Active /\ e.st.st_size > 0
    /\ e.tried_reflink
    /\ calls = {"sendfile:EAGAIN"}

\* C5: a fatal error in a transfer step (read() failing, write() failing with
\* something other than EAGAIN, the compressor failing) hands its negative
\* code to the completion handler, and no later transfer step of the engine
\* reads the source again.
C5_FatalErrorEndsReading ==
    [][TransferStep =>
        /\ ("read:error" \in calls' => finished' = Append(finished,
                [r |-> -EIO, handler |-> Last(finished').handler, via |-> "read:error"]))
        /\ ("write:error" \in calls' => finished' = Append(finished,
                [r |-> -ENOSPC, handler |-> Last(finished').handler, via |-> "write:error"]))
        /\ ("compress:error" \in calls' => finished' = Append(finished,
                [r |-> -ENOMEM, handler |-> Last(finished').handler, via |-> "compress:error"]))
        /\ ((\E i \in DOMAIN finished : finished[i].r < 0) => calls' \cap ReadCalls = {})
    ]_vars

\* C6: over one export the percent the reporter computes never decreases, the
\* emitted percents are in non-decreasing order, and every one of them is in
\* 0..100; last_percent is the latest emitted percent.
C6_PercentMonotone ==
    /\ [](Active =>
            /\ Percent(e) \in 0..100
            /\ \A i \in DOMAIN emitted : emitted[i].percent \in 0..100
            /\ \A i, j \in DOMAIN emitted : i < j => emitted[i].percent <= emitted[j].percent
            /\ IF emitted = <<>>
               THEN e.last_percent = LAST_PERCENT_NONE
               ELSE e.last_percent = Last(emitted).percent /\ e.last_percent <= Percent(e))
    /\ [][(Active /\ Active') => Percent(e') >= Percent(e)]_vars

\* C6's case: an export that emitted a lower percent and later 100.
C6_Witness ==
    /\ Active
    /\ Len(emitted) >= 2
    /\ emitted[1].percent < 100
    /\ Last(emitted).percent = 100

\* C7: no two emissions of one export carry the same percent; an emission
\* happens only in a step in which the rate limiter grants a token, so two
\* emissions are more than the limiter's interval apart; and in a step in
\* which the limiter denies, nothing is emitted and last_percent stays.
C7_EmissionsDistinctAndLimited ==
    /\ [](\A i, j \in DOMAIN emitted : i < j =>
            /\ emitted[i].percent # emitted[j].percent
            /\ emitted[j].at > emitted[i].at + RATELIMIT_INTERVAL)
    /\ [][~destroyed' =>
            LET t == ratelimit_test(e.progress_rate_limit, now)
            IN /\ emitted' # emitted =>
                    /\ t.granted
                    /\ Len(emitted') = Len(emitted) + 1
                    /\ Last(emitted').at = now
               /\ ~t.granted => emitted' = emitted /\ e'.last_percent = e.last_percent
        ]_vars

\* C7's case: after an emission, a step moved bytes to a new percent while
\* the limiter's interval was still running, and nothing was emitted.
C7_Witness ==
    /\ Active
    /\ emitted # <<>>
    /\ calls \cap {"write:data", "sendfile:data"} # {}
    /\ Percent(e) # e.last_percent
    /\ now <= Last(emitted).at + RATELIMIT_INTERVAL

\* C8: a non-empty file exported with compression "uncompressed" over the
\* sendfile() path alone, completing with result 0, has last_percent = 100
\* at completion.
C8_FinalPercentIs100 ==
    (/\ Active /\ e.compress.type = "uncompressed" /\ e.st.st_size > 0
     /\ ~e.tried_sendfile
     /\ Len(finished) = 1 /\ finished[1].via = "sendfile:0" /\ finished[1].r = 0)
    => e.last_percent = 100

\* C9 as claimed: the export of a 0-byte file completes with result 0 and
\* emits no progress, for every compression type and fast-path outcome.
C9_EmptyFileEmitsNothing ==
    (Active /\ e.st.st_size = 0)
    => /\ emitted = <<>>
       /\ \A i \in DOMAIN finished : finished[i].via \notin FatalVias => finished[i].r = 0

\* C9 as the code has it: the export of a 0-byte file completes with result 0
\* unless a read, write or compressor error ends it; with compression
\* "uncompressed" nothing is ever emitted, whatever the fast paths do; with a
\* compressing type the write of the compressor's trailer reports progress,
\* so that at most one emission, of 100, is made.
C9_EmptyFileEmission ==
    (Active /\ e.st.st_size = 0)
    => /\ \A i \in DOMAIN finished : finished[i].via \notin FatalVias => finished[i].r = 0
       /\ e.compress.type = "uncompressed" => emitted = <<>> /\ e.last_percent = LAST_PERCENT_NONE
       /\ Len(emitted) <= 1
       /\ \A i \in DOMAIN emitted : emitted[i].percent = 100
       /\ emitted # <<>> => e.eof /\ e.buffer \o e.compress.held \o output # <<>>

\* C9's case: a 0-byte file whose reflink and sendfile() both failed, finished
\* with result 0 by the generic path without an emission.
C9_Witness ==
    /\ Active /\ e.st.st_size = 0 /\ e.compress.type = "uncompressed"
    /\ e.tried_reflink /\ e.tried_sendfile /\ e.eof
    /\ finished # <<>> /\ finished[1].r = 0 /\ finished[1].via = "eof"
    /\ emitted = <<>>

\* C10: once the reflink succeeded, neither read() nor sendfile() is called on
\* the source, in that step or in any later one.
C10_ReflinkSuccessEndsTransfer ==
    /\ []("reflink:ok" \in calls => calls = {"reflink:ok"})
    /\ [][(TransferStep /\ \E i \in DOMAIN finished : finished[i].via = "reflink:ok")
            => calls' \cap (ReadCalls \cup SendfileCalls) = {}]_vars

\* The failures of raw_export_start() that come before the S_ISREG() test.
EarlyStartFailures == {"fd_nonblock", "free_and_strdup", "open", "fstat"}

\* C11: raw_export_start() on an engine whose output_fd is assigned (an export
\* outstanding, or completed and not destroyed) returns -EBUSY and leaves
\* every field of the engine, and the descriptor behind input_fd, as they
\* were, whatever the path and the compression, also where nothing in the
\* environment would have made the start fail.
C11_BusyStartChangesNothing ==
    Active =>
        \A path \in Paths, compress \in CompressTypes :
            LET out == raw_export_start(path, 1, compress, "none", FALSE)
            IN out.r = -EBUSY /\ out.e = e /\ ~out.opened

\* C11's case: start was called, and answered -EBUSY, on an engine whose
\* export had already completed.
C11_Witness ==
    /\ Active
    /\ finished # <<>>
    /\ ret = -EBUSY

\* C12: input_fd is assigned at most once per engine: on an engine whose
\* input_fd is already assigned no raw_export_start(), a retry after a failed
\* start included, assigns it again; and a start that fails leaves input_fd,
\* the compressor and the event source as they were.
C12_InputFdSetAtMostOnce ==
    (~destroyed /\ e.output_fd < 0) =>
        \A path \in Paths, compress \in CompressTypes,
           fail \in StartFailures, eperm \in BOOLEAN :
            LET out == raw_export_start(path, 1, compress, fail, eperm)
            IN /\ e.input_fd = "open" => ~out.opened
               /\ out.r < 0 => /\ out.e.input_fd = e.input_fd
                               /\ out.e.compress = e.compress
                               /\ out.e.output_event_source = e.output_event_source

\* C13: raw_export_start() on a path that is not a regular file, when fcntl(),
\* strdup(), open() and fstat() succeed, returns -ENOTTY and assigns neither
\* output_fd nor input_fd nor the event source; and the engine that answered
\* -ENOTTY is not active, so that a start on a regular file can return 0.
C13_NotRegularLeavesEngineReusable ==
    /\ (~destroyed /\ e.output_fd < 0) =>
        \A path \in Paths, compress \in CompressTypes,
           fail \in StartFailures \ EarlyStartFailures, eperm \in BOOLEAN :
            path.st_mode # "S_IFREG" =>
                LET out == raw_export_start(path, 1, compress, fail, eperm)
                IN /\ out.r = -ENOTTY
                   /\ ~out.opened
                   /\ out.e.output_fd < 0
                   /\ out.e.input_fd = e.input_fd
                   /\ out.e.output_event_source = e.output_event_source
    /\ (~destroyed /\ ret = -ENOTTY) =>
        /\ e.output_fd < 0
        /\ e.st.st_mode # "S_IFREG"
        /\ \E path \in Paths, compress \in CompressTypes :
                raw_export_start(path, 1, compress, "none", FALSE).r = 0

\* C13's case: a start on a directory answered -ENOTTY on a fresh engine.
C13_Witness ==
    /\ ~destroyed
    /\ ret = -ENOTTY
    /\ e.st.st_mode = "S_IFDIR"
    /\ e.input_fd = "closed" /\ e.output_fd < 0 /\ e.output_event_source = "NULL"

\* A step of the event loop into raw_export_process(), told by what it leaves
\* alone: on an active engine raw_export_start() changes ret only, the clock
\* changes now only, and raw_export_unref() destroys the engine.
ProcessStep == Active /\ now' = now /\ ret' = ret /\ ~destroyed'

ReflinkCalls == {"reflink:ok", "reflink:error"}
WriteCalls == {"write:data", "write:EAGAIN", "write:error"}

\* C14: tried_reflink and tried_sendfile are one-shot latches, never reset;
\* once a latch is set, no later transfer step makes that strategy's call; and
\* btrfs_reflink() is attempted at most once per export: not after a failed
\* attempt, and not after the attempt that succeeded.
C14_LatchesOneShot ==
    [][ProcessStep =>
        /\ e.tried_reflink => e'.tried_reflink /\ calls' \cap ReflinkCalls = {}
        /\ e.tried_sendfile => e'.tried_sendfile /\ calls' \cap SendfileCalls = {}
        /\ (\E i \in DOMAIN finished : finished[i].via = "reflink:ok")
                => calls' \cap ReflinkCalls = {}
      ]_vars

\* C15: once eof is set it stays set, and neither the step that set it nor any
\* later transfer step calls read() or sendfile() on input_fd again: the file
\* offset of input_fd stays at the end of the source and written_uncompressed
\* stays what it was.
C15_NoReadAfterEof ==
    /\ []((Active /\ e.eof) =>
            /\ in_pos = e.st.st_size
            /\ "read:0" \in calls => calls \cap ({"read:error"} \cup SendfileCalls) \subseteq {"sendfile:error"})
    /\ [][(ProcessStep /\ e.eof) =>
            /\ e'.eof
            /\ calls' \cap (ReadCalls \cup SendfileCalls) = {}
            /\ in_pos' = in_pos
            /\ e'.written_uncompressed = e.written_uncompressed
         ]_vars

\* C15's case: after end of input was reached with bytes still pending, a
\* later notification wrote some of them without reading.
C15_Witness ==
    /\ Active /\ e.eof
    /\ finished = <<>>
    /\ calls = {"write:data"}
    /\ e.buffer # <<>>
    /\ e.written_compressed > 0

\* C16: a would-block result is a yield. A step in which sendfile() answers
\* EAGAIN returns with tried_sendfile still false, both counters, the source's
\* offset and the output as they were, and no completion. A step in which
\* write() answers EAGAIN returns with a non-empty pending buffer,
\* written_compressed, last_percent and the output as they were, no emission
\* and no completion; when the buffer was pending before the step, the whole
\* engine, latches included, is as it was; and the next write() that is
\* accepted writes the head of that same buffer.
C16_WouldBlockYields ==
    [][ProcessStep =>
        /\ "sendfile:EAGAIN" \in calls' =>
            /\ ~e'.tried_sendfile
            /\ e'.written_uncompressed = e.written_uncompressed
            /\ e'.written_compressed = e.written_compressed
            /\ e'.buffer = e.buffer
            /\ in_pos' = in_pos /\ output' = output /\ out_pos' = out_pos
            /\ finished' = finished /\ emitted' = emitted
        /\ "write:EAGAIN" \in calls' =>
            /\ e'.buffer # <<>>
            /\ e'.written_compressed = e.written_compressed
            /\ e'.last_percent = e.last_percent
            /\ output' = output /\ out_pos' = out_pos
            /\ finished' = finished /\ emitted' = emitted
            /\ e.buffer # <<>> => e' = e /\ in_pos' = in_pos
        /\ ("write:EAGAIN" \in calls /\ "write:data" \in calls') =>
            LET l == e'.written_compressed - e.written_compressed
            IN /\ l \in 0..Len(e.buffer)
               /\ e'.buffer = Drop(e.buffer, l)
               /\ output' = WriteAt(output, out_pos, SubSeq(e.buffer, 1, l))
      ]_vars

\* C16's case: a buffer partly written by an earlier step was offered again
\* and write() answered EAGAIN.
C16_Witness ==
    /\ Active
    /\ finished = <<>>
    /\ calls = {"write:EAGAIN"}
    /\ e.buffer # <<>>
    /\ e.written_compressed > 0

\* The generic buffered path has been at work: it read, encoded or wrote in
\* the latest step, holds pending bytes, or has seen the end of the input.
GenericActivity ==
    \/ calls \cap (ReadCalls \cup WriteCalls \cup {"compress:error"}) # {}
    \/ e.buffer # <<>>
    \/ e.compress.held # <<>>
    \/ e.eof

FastPathCalls == ReflinkCalls \cup SendfileCalls

\* C17: the fast paths only precede the generic buffered path. Where the
\* generic path has been at work on an uncompressed export both latches are
\* set and the only fast-path calls of that step are the failures that led
\* into it; with the latches set no later step attempts reflink or sendfile;
\* and with a compressing type neither is ever attempted and both latches
\* stay false.
C17_FastPathsOnlyPrecede ==
    /\ []((Active /\ GenericActivity /\ e.compress.type = "uncompressed") =>
            /\ e.tried_reflink /\ e.tried_sendfile
            /\ calls \cap FastPathCalls \subseteq {"reflink:error", "sendfile:error"})
    /\ []((Active /\ e.compress.type # "uncompressed") =>
            /\ calls \cap FastPathCalls = {}
            /\ ~e.tried_reflink /\ ~e.tried_sendfile)
    /\ [][(ProcessStep /\ GenericActivity) =>
            /\ GenericActivity'
            /\ calls' \cap FastPathCalls = {}
            /\ e'.tried_reflink = e.tried_reflink
            /\ e'.tried_sendfile = e.tried_sendfile
         ]_vars

\* C17's case: an uncompressed export whose fast paths failed, and whose later
\* step went straight to read() and write().
C17_Witness ==
    /\ Active /\ e.compress.type = "uncompressed"
    /\ e.tried_reflink /\ e.tried_sendfile
    /\ e.written_compressed > 0
    /\ calls = {"read:data", "write:data"}
    /\ in_pos = e.st.st_size
    /\ ~e.eof

\* import_compress_finish() has run and succeeded: a compressing type has
\* released all it held and its trailer is the last of what was produced.
Flushed ==
    /\ e.eof
    /\ e.compress.held = <<>>
    /\ e.compress.type # "uncompressed" =>
            /\ produced > 0
            /\ Last(output \o e.buffer) = Last(Trailer)

\* C18: written_compressed plus the pending buffer's length is at every moment
\* the number of bytes the compressor has produced plus those sendfile()
\* moved; and a completion the generic path signals with result 0 finds the
\* input exhausted, the compressor flushed and the pending buffer empty, so
\* that every produced byte has been written.
C18_SuccessOnlyWhenAllWritten ==
    Active =>
        /\ e.written_compressed + Len(e.buffer) = produced
        /\ \A i \in DOMAIN finished :
            (finished[i].via = "eof" /\ finished[i].r = 0) =>
                /\ in_pos = e.st.st_size
                /\ e.buffer = <<>>
                /\ e.written_compressed = produced
                /\ Flushed

\* C19: after a successful start, when notifications keep being delivered, no
\* call answers EAGAIN for ever and every accepted write() takes at least one
\* byte, the export reaches a terminal outcome: the completion handler is
\* invoked, with 0 or with a negative code, for every source size and every
\* compression type (or the engine is destroyed first).
C19_EventuallyTerminal ==
    (Active /\ finished = <<>>)
        ~> (destroyed \/ (finished # <<>> /\ finished[1].r <= 0))

\* C19's case: the export of a source of the largest size, compressed, that
\* reached end of input and completed with result 0.
C19_Witness ==
    /\ Active /\ e.compress.type # "uncompressed"
    /\ e.st.st_size = MaxSize
    /\ Len(finished) = 1 /\ finished[1].r = 0 /\ finished[1].via = "eof"

\* C20: over any sequence of pager_open() and pager_close() calls at most one
\* pager child exists at a time; pager_have() is true only while the
\* parent's stdout is redirected into the pager's pipe by a pager_open() that
\* returned 1; a pager_open() that returned 1 has a pager recorded; and after
\* pager_close() pager_have() is false.
C20_PagerStateMachine ==
    /\ Cardinality(children) <= 1
    /\ pager_have =>
        /\ stdout_fd = "pipe"
        /\ pager_op = [op |-> "pager_open", r |-> 1]
    /\ pager_op = [op |-> "pager_open", r |-> 1] => pager_have
    /\ pager_op.op = "pager_close" => ~pager_have

====
